---- MODULE Spec2Model ----
(***************************************************************************)
(* Model of the ollama-evals dashboard script (src/app.js and its later    *)
(* revision src/unnamed/part_000): the duration parser, the numeric        *)
(* extractor, the report parser loadData, the metric normalisation, and    *)
(* the grid's filter/sort handlers.                                        *)
(*                                                                         *)
(* Text is a sequence of one-character strings.  A JavaScript value is a   *)
(* tagged record: Null, Undefined, NaN, Str(chars), Num(v), Bool(b).       *)
(* A JavaScript number n is held as the integer n * Scale (fixed point,    *)
(* five decimals), so 0.5 is 50000 and 3600 is 360000000.                  *)
(***************************************************************************)
EXTENDS Integers, Sequences, FiniteSets, TLC

VARIABLES
    arg,        \* argument of the pure function under test
    ret,        \* its result, Pending before the call
    pc,         \* position of init()/loadData(): idle, fetch, parse, loaded, ready, failed
    resOk,      \* res.ok of the fetch response
    txt,        \* res.text(): the report
    lines,      \* txt.split(/\r?\n/)
    i,          \* loop index of loadData's for loop (1-based)
    models,     \* const models = []
    cur,        \* let cur = null
    afterHeaderLineCount,
    SORT,       \* const SORT = { by, dir }
    search,     \* value of the #search input
    options,    \* names put into #modelA / #modelB by renderOptions
    grid,       \* content of #grid
    modelCount, \* text of #modelCount, as <<shown, total>>
    compare,    \* content of #compare
    handlers    \* event listeners registered by init()

vars == <<arg, ret, pc, resOk, txt, lines, i, models, cur, afterHeaderLineCount,
          SORT, search, options, grid, modelCount, compare, handlers>>

appVars == <<pc, resOk, txt, lines, i, models, cur, afterHeaderLineCount,
             SORT, search, options, grid, modelCount, compare, handlers>>

(***************************************************************************)
(* JavaScript values                                                       *)
(***************************************************************************)
Null == [t |-> "null"]
Undefined == [t |-> "undefined"]
NaN == [t |-> "NaN"]
Pending == [t |-> "pending"]
Str(s) == [t |-> "string", v |-> s]
Num(n) == [t |-> "number", v |-> n]
Bool(b) == [t |-> "boolean", v |-> b]

RECURSIVE Pow10(_)
Pow10(n) == IF n = 0 THEN 1 ELSE 10 * Pow10(n - 1)

\* Fixed-point unit of every modelled number: n is stored as n * Scale.
ScaleDigits == 5
Scale == Pow10(ScaleDigits)

IsNum(x) == x.t = "number"

\* ToBoolean: null, undefined, NaN, 0 and "" are falsy.
Truthy(x) ==
    CASE x.t = "string" -> x.v # <<>>
      [] x.t = "number" -> x.v # 0
      [] x.t = "boolean" -> x.v
      [] OTHER -> FALSE

(***************************************************************************)
(* Characters and strings                                                  *)
(***************************************************************************)
Digits == <<"0", "1", "2", "3", "4", "5", "6", "7", "8", "9">>
UpperAlpha == <<"A", "B", "C", "D", "E", "F", "G", "H", "I", "J", "K", "L", "M",
                "N", "O", "P", "Q", "R", "S", "T", "U", "V", "W", "X", "Y", "Z">>
LowerAlpha == <<"a", "b", "c", "d", "e", "f", "g", "h", "i", "j", "k", "l", "m",
                "n", "o", "p", "q", "r", "s", "t", "u", "v", "w", "x", "y", "z">>

Range(f) == {f[k] : k \in DOMAIN f}

\* the characters of a string literal
Chars(str) == [k \in 1..Len(str) |-> SubSeq(str, k, k)]
\* the grave accent U+0060, which a string literal here cannot hold
Backtick == "BACKTICK"

IsDigit(c) == c \in Range(Digits)
DigitVal(c) == (CHOOSE k \in DOMAIN Digits : Digits[k] = c) - 1
IsAlpha(c) == c \in Range(UpperAlpha) \cup Range(LowerAlpha)
\* \s
IsSpace(c) == c \in {" ", "\t", "\r", "\n"}
\* \w
IsWordChar(c) == IsDigit(c) \/ IsAlpha(c) \/ c = "_"
\* the class [A-Za-z0-9._-] of the header pattern
IsNameChar(c) == IsDigit(c) \/ IsAlpha(c) \/ c \in {".", "_", "-"}

toLowerChar(c) ==
    IF c \in Range(UpperAlpha)
    THEN LowerAlpha[CHOOSE k \in DOMAIN UpperAlpha : UpperAlpha[k] = c]
    ELSE c
toLowerCase(s) == [k \in DOMAIN s |-> toLowerChar(s[k])]

Min(a, b) == IF a < b THEN a ELSE b

\* String.prototype.trim
trim(s) ==
    LET keep == {k \in DOMAIN s : ~IsSpace(s[k])}
    IN  IF keep = {} THEN <<>>
        ELSE LET a == CHOOSE k \in keep : \A j \in keep : k <= j
                 b == CHOOSE k \in keep : \A j \in keep : k >= j
             IN  SubSeq(s, a, b)

\* line.replace(/\s+$/, '')
trimEnd(s) ==
    LET keep == {k \in DOMAIN s : ~IsSpace(s[k])}
    IN  IF keep = {} THEN <<>>
        ELSE SubSeq(s, 1, CHOOSE k \in keep : \A j \in keep : k >= j)

\* the literal w occurs in s at position p
LitAt(s, p, w) ==
    /\ p >= 1
    /\ p + Len(w) - 1 <= Len(s)
    /\ \A k \in 1..Len(w) : s[p + k - 1] = w[k]

startsWith(s, w) == LitAt(s, 1, w)
\* /w/i.test(s) for a literal w given in lower case
ContainsCI(s, w) == \E p \in 1..Len(s) : LitAt(toLowerCase(s), p, w)

\* last index of the maximal run of characters satisfying the class that
\* starts at p; p - 1 when s[p] is not in the class
RECURSIVE DigitRunEnd(_, _)
DigitRunEnd(s, p) ==
    IF p <= Len(s) /\ IsDigit(s[p]) THEN DigitRunEnd(s, p + 1) ELSE p - 1
RECURSIVE SpaceRunEnd(_, _)
SpaceRunEnd(s, p) ==
    IF p <= Len(s) /\ IsSpace(s[p]) THEN SpaceRunEnd(s, p + 1) ELSE p - 1
RECURSIVE NameRunEnd(_, _)
NameRunEnd(s, p) ==
    IF p <= Len(s) /\ IsNameChar(s[p]) THEN NameRunEnd(s, p + 1) ELSE p - 1

\* value of a run of digits
RECURSIVE IntVal(_)
IntVal(ds) ==
    IF ds = <<>> THEN 0
    ELSE 10 * IntVal(SubSeq(ds, 1, Len(ds) - 1)) + DigitVal(ds[Len(ds)])

(***************************************************************************)
(* Numeric tokens: the pattern [0-9]+(?:\.[0-9]+)? and its conversions     *)
(***************************************************************************)
\* End of the integer part of a number starting at p (p - 1: no number).
NumIntEnd(s, p) == DigitRunEnd(s, p)
\* End of the number with its decimal part, when it has one; else the end
\* of the integer part.
NumEnd(s, p) ==
    LET e == NumIntEnd(s, p)
    IN  IF e >= p /\ e + 2 <= Len(s) /\ s[e + 1] = "." /\ IsDigit(s[e + 2])
        THEN DigitRunEnd(s, e + 2)
        ELSE e

\* parseFloat / Number of a token -?digits(.digits)?, times Scale.  Decimals
\* beyond ScaleDigits are dropped.
ParseFloat(tok) ==
    LET neg == tok # <<>> /\ tok[1] = "-"
        body == IF neg THEN Tail(tok) ELSE tok
        e == DigitRunEnd(body, 1)
        frac == IF e + 1 < Len(body) THEN SubSeq(body, e + 2, Len(body)) ELSE <<>>
        n == Min(Len(frac), ScaleDigits)
        mag == IntVal(SubSeq(body, 1, e)) * Scale
               + IntVal(SubSeq(frac, 1, n)) * Pow10(ScaleDigits - n)
    IN  IF neg THEN 0 - mag ELSE mag

(***************************************************************************)
(* parseDurationToSeconds                                                  *)
(***************************************************************************)
\* s.match(/([0-9]+(?:\.[0-9]+)?)<unit>/) tried at position p: the captured
\* group, or <<>> when the pattern does not match there.  The number is
\* taken greedily and given back (its decimal part dropped) only when the
\* unit does not follow.
NumUnitAt(s, p, unit) ==
    LET e1 == NumIntEnd(s, p)
        e2 == NumEnd(s, p)
    IN  IF e1 < p THEN <<>>
        ELSE IF LitAt(s, e2 + 1, unit) THEN SubSeq(s, p, e2)
        ELSE IF LitAt(s, e1 + 1, unit) THEN SubSeq(s, p, e1)
        ELSE <<>>

\* The first (leftmost) match of the pattern in s: its group, or <<>>.
NumUnitMatch(s, unit) ==
    LET hits == {p \in 1..Len(s) : NumUnitAt(s, p, unit) # <<>>}
    IN  IF hits = {} THEN <<>>
        ELSE NumUnitAt(s, CHOOSE p \in hits : \A q \in hits : p <= q, unit)

\* parseDurationToSeconds ending in "return seconds" instead of
\* "return seconds || null"
parseDurationKeepsZero(raw) ==
    IF ~Truthy(raw) THEN Null
    ELSE LET s == trim(raw.v)
             minMatch == NumUnitMatch(s, <<"m">>)
             secMatch == NumUnitMatch(s, <<"s">>)
             msMatch == NumUnitMatch(s, <<"m", "s">>)
         IN  Num((IF minMatch # <<>> THEN ParseFloat(minMatch) * 60 ELSE 0)
                 + (IF secMatch # <<>> THEN ParseFloat(secMatch) ELSE 0)
                 + (IF secMatch = <<>> /\ msMatch # <<>>
                    THEN ParseFloat(msMatch) \div 1000 ELSE 0))

parseDurationToSeconds(raw) ==
    IF ~Truthy(raw) THEN Null
    ELSE LET s == trim(raw.v)
             minMatch == NumUnitMatch(s, <<"m">>)
             secMatch == NumUnitMatch(s, <<"s">>)
             msMatch == NumUnitMatch(s, <<"m", "s">>)
             seconds ==
                 (IF minMatch # <<>> THEN ParseFloat(minMatch) * 60 ELSE 0)
                 + (IF secMatch # <<>> THEN ParseFloat(secMatch) ELSE 0)
                 + (IF secMatch = <<>> /\ msMatch # <<>>
                    THEN ParseFloat(msMatch) \div 1000 ELSE 0)
         IN  IF seconds # 0 THEN Num(seconds) ELSE Null

(***************************************************************************)
(* extractNumberFromText                                                   *)
(***************************************************************************)
\* .replace(/[,^\n]/g, ' ')
replaceSeparators(s) ==
    [k \in DOMAIN s |-> IF s[k] \in {",", "^", "\n"} THEN " " ELSE s[k]]

\* End of a match of /-?\d+(?:\.\d+)?/ starting at p; p - 1 when none.
SignedNumEnd(s, p) ==
    IF p <= Len(s) /\ s[p] = "-"
    THEN (IF NumIntEnd(s, p + 1) >= p + 1 THEN NumEnd(s, p + 1) ELSE p - 1)
    ELSE NumEnd(s, p)

\* .match(/-?\d+(?:\.\d+)?/g): every match from position p on, left to
\* right, each search resuming after the previous match.
RECURSIVE matchAllNumbers(_, _)
matchAllNumbers(s, p) ==
    IF p > Len(s) THEN <<>>
    ELSE LET e == SignedNumEnd(s, p)
         IN  IF e >= p
             THEN <<SubSeq(s, p, e)>> \o matchAllNumbers(s, e + 1)
             ELSE matchAllNumbers(s, p + 1)

\* the test written as /^-?\d{3,}(?:\.\d+)?$/, which lets a decimal part through
IsBigIntOrDecimal(n) ==
    LET body == IF n # <<>> /\ n[1] = "-" THEN Tail(n) ELSE n
        e == DigitRunEnd(body, 1)
    IN  e >= 3 /\ NumEnd(body, 1) = Len(body)

\* /^-?\d{3,}$/.test(n)
IsBigInt(n) ==
    LET body == IF n # <<>> /\ n[1] = "-" THEN Tail(n) ELSE n
    IN  Len(body) >= 3 /\ \A k \in DOMAIN body : IsDigit(body[k])

extractNumberFromText(text) ==
    IF ~Truthy(text) THEN Null
    ELSE LET nums == matchAllNumbers(replaceSeparators(text.v), 1)
             bigInt == SelectSeq(nums, IsBigInt)
             chosen == IF Len(bigInt) > 0 THEN bigInt[1] ELSE nums[Len(nums)]
         IN  IF Len(nums) = 0 THEN Null ELSE Num(ParseFloat(chosen))

(***************************************************************************)
(* loadData: line classification                                           *)
(***************************************************************************)
EXPECTED_ANSWER == 3600

\* /^[A-Za-z0-9._-]+:[A-Za-z0-9._-]+/.test(line.trim())
isModelHeader(line) ==
    LET t == trim(line)
        e == NameRunEnd(t, 1)
    IN  e >= 1 /\ e + 2 <= Len(t) /\ t[e + 1] = ":" /\ IsNameChar(t[e + 2])

\* line.startsWith('```')
isFence(line) == startsWith(line, <<Backtick, Backtick, Backtick>>)

\* /Step\s*5:/i.test(line)
hasStep5(line) ==
    LET l == toLowerCase(line)
    IN  \E p \in 1..Len(l) :
            /\ LitAt(l, p, Chars("step"))
            /\ LitAt(l, SpaceRunEnd(l, p + 4) + 1, Chars("5:"))

\* /The\s+trains/i.test(line)
hasTheTrains(line) ==
    LET l == toLowerCase(line)
    IN  \E p \in 1..Len(l) :
            /\ LitAt(l, p, Chars("the"))
            /\ SpaceRunEnd(l, p + 3) >= p + 3
            /\ LitAt(l, SpaceRunEnd(l, p + 3) + 1, Chars("trains"))

isEarlyAnswer(line) ==
    hasStep5(line) \/ ContainsCI(line, Chars("answer")) \/ hasTheTrains(line)

\* the labels of the metrics pattern, in the order of its alternation
MetricLabels ==
    << Chars("total duration"), Chars("load duration"), Chars("prompt eval count"),
       Chars("prompt eval duration"), Chars("prompt eval rate"), Chars("eval count"),
       Chars("eval duration"), Chars("eval rate") >>
MetricKeys == Range(MetricLabels)

\* . of a pattern without the s flag: anything but a line terminator
IsLineTerminator(c) == c \in {"\n", "\r"}

\* raw.match(/^(label|...):\s*(.+)$/i): <<key, value>> with the key in lower
\* case and the value trimmed, or <<>> when raw does not match.  \s* is
\* greedy and gives back one character when nothing is left for (.+).
matchMetric(raw) ==
    LET l == toLowerCase(raw)
        found == {k \in DOMAIN MetricLabels :
                     /\ LitAt(l, 1, MetricLabels[k])
                     /\ LitAt(l, Len(MetricLabels[k]) + 1, <<":">>)}
    IN  IF found = {} THEN <<>>
        ELSE LET k == CHOOSE a \in found : \A b \in found : a <= b
                 from == Len(MetricLabels[k]) + 2
                 q == SpaceRunEnd(raw, from)
                 group == IF q < Len(raw) THEN SubSeq(raw, q + 1, Len(raw))
                          ELSE SubSeq(raw, Len(raw), Len(raw))
             IN  IF from > Len(raw) THEN <<>>
                 ELSE IF \E j \in DOMAIN group : IsLineTerminator(group[j]) THEN <<>>
                 ELSE <<MetricLabels[k], trim(group)>>

\* /\b(\d{3,})\b/.test(line)
hasStandaloneBigNumber(line) ==
    \E p \in 1..Len(line) :
        /\ IsDigit(line[p])
        /\ (p = 1 \/ ~IsWordChar(line[p - 1]))
        /\ LET e == DigitRunEnd(line, p)
           IN  e - p + 1 >= 3 /\ (e = Len(line) \/ ~IsWordChar(line[e + 1]))

\* /duration|count|rate/i.test(line)
looksLikeMetric(line) ==
    \/ ContainsCI(line, Chars("duration"))
    \/ ContainsCI(line, Chars("count"))
    \/ ContainsCI(line, Chars("rate"))

(***************************************************************************)
(* loadData: the report, its records, the normalisation                    *)
(***************************************************************************)
\* txt.split(/\r?\n/)
RECURSIVE split(_)
split(t) ==
    LET nl == {k \in DOMAIN t : t[k] = "\n"}
    IN  IF nl = {} THEN <<t>>
        ELSE LET n == CHOOSE k \in nl : \A j \in nl : k <= j
                 cut == IF n > 1 /\ t[n - 1] = "\r" THEN n - 2 ELSE n - 1
             IN  <<SubSeq(t, 1, cut)>> \o split(SubSeq(t, n + 1, Len(t)))

\* cur = { name, answerLine: null, numericAnswer: null, metrics: {} }
newRecord(line) ==
    [t |-> "object", name |-> trimEnd(line), answerLine |-> Null,
     numericAnswer |-> Null, metrics |-> [k \in MetricKeys |-> Undefined]]

\* cur.answerLine = raw.trim(); cur.numericAnswer = extractNumberFromText(...)
captureAnswer(rec, raw) ==
    [rec EXCEPT !.answerLine = Str(trim(raw)),
                !.numericAnswer = extractNumberFromText(Str(trim(raw)))]

\* the loop body with the early rule written without
\* "afterHeaderLineCount <= 6"
classifyNoEarlyWindow(rec, raw, n) ==
    LET line == trim(raw)
        m == matchMetric(raw)
    IN  IF ~Truthy(rec.answerLine) /\ isEarlyAnswer(line)
        THEN captureAnswer(rec, raw)
        ELSE IF m # <<>>
        THEN [rec EXCEPT !.metrics[m[1]] = Str(m[2])]
        ELSE IF /\ ~Truthy(rec.answerLine)
                /\ hasStandaloneBigNumber(line)
                /\ ~looksLikeMetric(line)
        THEN captureAnswer(rec, raw)
        ELSE rec

\* the loop body with the metrics rule tried before the early answer rule
classifyMetricFirst(rec, raw, n) ==
    LET line == trim(raw)
        m == matchMetric(raw)
    IN  IF m # <<>>
        THEN [rec EXCEPT !.metrics[m[1]] = Str(m[2])]
        ELSE IF ~Truthy(rec.answerLine) /\ n <= 6 /\ isEarlyAnswer(line)
        THEN captureAnswer(rec, raw)
        ELSE IF /\ ~Truthy(rec.answerLine)
                /\ hasStandaloneBigNumber(line)
                /\ ~looksLikeMetric(line)
        THEN captureAnswer(rec, raw)
        ELSE rec

\* One pass of the loop body over a body line (neither blank, fence nor
\* header) of an open record, the counter already incremented to n.
classifyBodyLine(rec, raw, n) ==
    LET line == trim(raw)
        m == matchMetric(raw)
    IN  IF ~Truthy(rec.answerLine) /\ n <= 6 /\ isEarlyAnswer(line)
        THEN captureAnswer(rec, raw)
        ELSE IF m # <<>>
        THEN [rec EXCEPT !.metrics[m[1]] = Str(m[2])]
        ELSE IF /\ ~Truthy(rec.answerLine)
                /\ hasStandaloneBigNumber(line)
                /\ ~looksLikeMetric(line)
        THEN captureAnswer(rec, raw)
        ELSE rec

\* Number(x): null is 0, undefined is NaN, a number is itself
ToNumber(x) ==
    CASE x.t = "number" -> x
      [] x.t = "null" -> Num(0)
      [] OTHER -> NaN

\* md[key] ? Number(String(md[key]).match(/\d+/)?.[0]) : null
normalizeCount(v) ==
    IF ~Truthy(v) THEN Null
    ELSE LET hits == {p \in DOMAIN v.v : IsDigit(v.v[p])}
         IN  IF hits = {} THEN ToNumber(Undefined)
             ELSE LET p == CHOOSE a \in hits : \A b \in hits : a <= b
                  IN  Num(ParseFloat(SubSeq(v.v, p, DigitRunEnd(v.v, p))))

\* md[key] ? Number(String(md[key]).match(/(-?\d+(?:\.\d+)?)/)?.[1]) : null
normalizeRate(v) ==
    IF ~Truthy(v) THEN Null
    ELSE LET nums == matchAllNumbers(v.v, 1)
         IN  IF Len(nums) = 0 THEN ToNumber(Undefined)
             ELSE Num(ParseFloat(nums[1]))

\* m.correct = Boolean(m.numericAnswer): any captured number counts
isCorrectAnyAnswer(numericAnswer) == Truthy(numericAnswer)

\* m.correct = Number(m.numericAnswer) === EXPECTED_ANSWER
isCorrect(numericAnswer) ==
    ToNumber(numericAnswer) = Num(EXPECTED_ANSWER * Scale)

\* the body of the normalisation loop, for one record
normalize(m) ==
    LET md == m.metrics
    IN  [t |-> "object", name |-> m.name, answerLine |-> m.answerLine,
         numericAnswer |-> m.numericAnswer, metrics |-> md,
         totalSeconds |-> parseDurationToSeconds(md[Chars("total duration")]),
         loadSeconds |-> parseDurationToSeconds(md[Chars("load duration")]),
         promptCount |-> normalizeCount(md[Chars("prompt eval count")]),
         evalCount |-> normalizeCount(md[Chars("eval count")]),
         promptDurationSeconds |->
             parseDurationToSeconds(md[Chars("prompt eval duration")]),
         evalDurationSeconds |-> parseDurationToSeconds(md[Chars("eval duration")]),
         promptRate |-> normalizeRate(md[Chars("prompt eval rate")]),
         evalRate |-> normalizeRate(md[Chars("eval rate")]),
         correct |-> Bool(isCorrect(m.numericAnswer))]

(***************************************************************************)
(* Rendering                                                               *)
(***************************************************************************)
\* renderOptions: the option values of #modelA and #modelB
renderOptions(ms) == [k \in DOMAIN ms |-> ms[k].name]

\* the switch of renderGrid's getVal
getVal(m, by) ==
    CASE by = "total" -> m.totalSeconds
      [] by = "genDuration" -> m.evalDurationSeconds
      [] by = "promptRate" -> m.promptRate
      [] by = "evalRate" -> m.evalRate
      [] by = "evalCount" -> m.evalCount
      [] OTHER -> m.totalSeconds

\* va == null || Number.isNaN(va)
isMissing(v) == v.t \in {"null", "undefined", "NaN"}

\* the comparator with the missing values ordered by the direction too
sortCompareMissingByDir(a, b, sort) ==
    LET va == getVal(a, sort.by)
        vb == getVal(b, sort.by)
        na == isMissing(va)
        nb == isMissing(vb)
        sign == IF sort.dir = "asc" THEN 1 ELSE -1
    IN  IF na /\ nb THEN 0
        ELSE IF na THEN sign
        ELSE IF nb THEN 0 - sign
        ELSE sign * (va.v - vb.v)

\* the comparator handed to filtered.sort
sortCompare(a, b, sort) ==
    LET va == getVal(a, sort.by)
        vb == getVal(b, sort.by)
        na == isMissing(va)
        nb == isMissing(vb)
    IN  IF na /\ nb THEN 0
        ELSE IF na THEN 1
        ELSE IF nb THEN -1
        ELSE IF sort.dir = "asc" THEN va.v - vb.v ELSE vb.v - va.v

\* Array.prototype.sort is stable: x goes before the first element that the
\* comparator puts after it.  idx is a sequence of indices into ms.
insertSorted(ms, sorted, x, sort) ==
    LET later == {k \in DOMAIN sorted : sortCompare(ms[sorted[k]], ms[x], sort) > 0}
        at == IF later = {} THEN Len(sorted) + 1
              ELSE CHOOSE k \in later : \A j \in later : k <= j
    IN  SubSeq(sorted, 1, at - 1) \o <<x>> \o SubSeq(sorted, at, Len(sorted))

RECURSIVE stableSort(_, _, _)
stableSort(ms, idx, sort) ==
    IF idx = <<>> THEN <<>>
    ELSE insertSorted(ms, stableSort(ms, SubSeq(idx, 1, Len(idx) - 1), sort),
                      idx[Len(idx)], sort)

\* name.toLowerCase().includes(q)
includes(s, q) == q = <<>> \/ \E p \in 1..Len(s) : LitAt(s, p, q)

\* renderGrid(models, filter): the new #grid and #modelCount.  A card is
\* held as the index of the record it shows.
renderGrid(ms, filter, sort) ==
    LET q == toLowerCase(trim(filter))
        all == [k \in DOMAIN ms |-> k]
        matches(k) == includes(toLowerCase(ms[k].name), q)
        filtered == IF q # <<>> THEN SelectSeq(all, matches) ELSE all
        sorted == stableSort(ms, filtered, sort)
    IN  [grid |-> IF Len(sorted) = 0 THEN [kind |-> "empty"]
                  ELSE [kind |-> "cards", items |-> sorted],
         modelCount |-> <<Len(sorted), Len(ms)>>]

\* models.find(m => m.name === name): its index, 0 when there is none
find(ms, name) ==
    LET hits == {k \in DOMAIN ms : ms[k].name = name}
    IN  IF hits = {} THEN 0 ELSE CHOOSE k \in hits : \A j \in hits : k <= j

\* renderCompare(models) with the two selects holding nameA and nameB
renderCompare(ms, nameA, nameB) ==
    LET A == find(ms, nameA)
        B == find(ms, nameB)
    IN  IF A = 0 \/ B = 0 THEN [kind |-> "empty"]
        ELSE [kind |-> "rows", a |-> A, b |-> B]

(***************************************************************************)
(* init() and loadData() as steps, and the handlers init() registers       *)
(***************************************************************************)
FailedToLoad == Chars("Failed to load data.md")
SortKeys == {"total", "genDuration", "promptRate", "evalRate", "evalCount"}
AllHandlers == {"search:input", "modelA:change", "modelB:change", "sortBy:change",
                "sortDir:click", "togglePrompt:change", "toggleCompare:change"}

unitVars == <<arg, ret>>
loadVars == <<lines, i, models, cur, afterHeaderLineCount>>
viewVars == <<SORT, search, options, grid, modelCount, compare, handlers>>

\* loadData without its "if (!res.ok) throw": the body of the failed
\* response is parsed like a report
FetchFailIgnored ==
    /\ pc = "fetch"
    /\ ~resOk
    /\ lines' = split(txt)
    /\ i' = 1
    /\ models' = <<>>
    /\ cur' = Null
    /\ afterHeaderLineCount' = 0
    /\ pc' = "parse"
    /\ UNCHANGED <<unitVars, resOk, txt, viewVars>>

\* if (!res.ok) throw ...; init's catch puts the message into #grid
FetchFail ==
    /\ pc = "fetch"
    /\ ~resOk
    /\ grid' = [kind |-> "error", message |-> FailedToLoad]
    /\ pc' = "failed"
    /\ UNCHANGED <<unitVars, resOk, txt, loadVars, SORT, search, options,
                   modelCount, compare, handlers>>

\* res.ok: the text is split and the loop starts
FetchOk ==
    /\ pc = "fetch"
    /\ resOk
    /\ lines' = split(txt)
    /\ i' = 1
    /\ models' = <<>>
    /\ cur' = Null
    /\ afterHeaderLineCount' = 0
    /\ pc' = "parse"
    /\ UNCHANGED <<unitVars, resOk, txt, viewVars>>

\* one iteration of the for loop
ParseLine ==
    /\ pc = "parse"
    /\ i <= Len(lines)
    /\ LET raw == lines[i]
           line == trim(raw)
       IN  IF line = <<>> \/ isFence(line)
           THEN UNCHANGED <<models, cur, afterHeaderLineCount>>
           ELSE IF isModelHeader(line)
           THEN /\ models' = IF cur # Null THEN Append(models, cur) ELSE models
                /\ cur' = newRecord(line)
                /\ afterHeaderLineCount' = 0
           ELSE IF cur = Null
           THEN UNCHANGED <<models, cur, afterHeaderLineCount>>
           ELSE /\ afterHeaderLineCount' = afterHeaderLineCount + 1
                /\ cur' = classifyBodyLine(cur, raw, afterHeaderLineCount + 1)
                /\ UNCHANGED models
    /\ i' = i + 1
    /\ UNCHANGED <<unitVars, pc, resOk, txt, lines, viewVars>>

\* the end of loadData without its "if (cur) models.push(cur)"
LoopExitDropsLast ==
    /\ pc = "parse"
    /\ i > Len(lines)
    /\ models' = [k \in DOMAIN models |-> normalize(models[k])]
    /\ pc' = "loaded"
    /\ UNCHANGED <<unitVars, resOk, txt, lines, i, cur, afterHeaderLineCount, viewVars>>

\* after the loop: the open record is pushed, every record is normalised,
\* loadData returns
LoopExit ==
    /\ pc = "parse"
    /\ i > Len(lines)
    /\ LET all == IF cur # Null THEN Append(models, cur) ELSE models
       IN  models' = [k \in DOMAIN all |-> normalize(all[k])]
    /\ pc' = "loaded"
    /\ UNCHANGED <<unitVars, resOk, txt, lines, i, cur, afterHeaderLineCount, viewVars>>

\* the rest of init's try block: renderOptions, renderGrid, the listeners
InitRender ==
    /\ pc = "loaded"
    /\ options' = renderOptions(models)
    /\ LET r == renderGrid(models, <<>>, SORT)
       IN  grid' = r.grid /\ modelCount' = r.modelCount
    /\ handlers' = AllHandlers
    /\ pc' = "ready"
    /\ UNCHANGED <<unitVars, resOk, txt, loadVars, SORT, search, compare>>

\* the input listener of #search
SearchInput(q) ==
    /\ "search:input" \in handlers
    /\ search' = q
    /\ LET r == renderGrid(models, q, SORT)
       IN  grid' = r.grid /\ modelCount' = r.modelCount
    /\ UNCHANGED <<unitVars, pc, resOk, txt, loadVars, SORT, options, compare, handlers>>

\* the change listener of #sortBy
SortByChange(by) ==
    /\ "sortBy:change" \in handlers
    /\ SORT' = [SORT EXCEPT !.by = by]
    /\ LET r == renderGrid(models, search, SORT')
       IN  grid' = r.grid /\ modelCount' = r.modelCount
    /\ UNCHANGED <<unitVars, pc, resOk, txt, loadVars, search, options, compare, handlers>>

\* the click listener of #sortDir
SortDirClick ==
    /\ "sortDir:click" \in handlers
    /\ SORT' = [SORT EXCEPT !.dir = IF SORT.dir = "asc" THEN "desc" ELSE "asc"]
    /\ LET r == renderGrid(models, search, SORT')
       IN  grid' = r.grid /\ modelCount' = r.modelCount
    /\ UNCHANGED <<unitVars, pc, resOk, txt, loadVars, search, options, compare, handlers>>

\* the change listener of #modelA and #modelB; nameA and nameB are the
\* values the two selects hold, each an option or ""
CompareChange(nameA, nameB) ==
    /\ {"modelA:change", "modelB:change"} \subseteq handlers
    /\ compare' = renderCompare(models, nameA, nameB)
    /\ UNCHANGED <<unitVars, pc, resOk, txt, loadVars, SORT, search, options, grid,
                   modelCount, handlers>>

(***************************************************************************)
(* Inputs                                                                  *)
(***************************************************************************)
\* all sequences over S of length at most n
RECURSIVE SeqsUpTo(_, _)
SeqsUpTo(S, n) ==
    IF n = 0 THEN {<<>>}
    ELSE LET shorter == SeqsUpTo(S, n - 1)
         IN  shorter \cup {Append(q, x) : q \in shorter, x \in S}

RECURSIVE Concat(_)
Concat(ss) == IF ss = <<>> THEN <<>> ELSE Head(ss) \o Concat(Tail(ss))

\* the parts joined by sep
RECURSIVE Join(_, _)
Join(ss, sep) ==
    IF ss = <<>> THEN <<>>
    ELSE IF Len(ss) = 1 THEN ss[1]
    ELSE ss[1] \o sep \o Join(Tail(ss), sep)

MaxDurParts == 2
MaxPieces == 3
MaxLines == 3
MaxBlocks == 2
MaxFiller == 7
MaxTail == 3

\* Duration inputs: components <number><unit> written one after another,
\* optionally padded with blanks.  val is the number times Scale.
DurNumbers ==
    { [chars |-> Chars("0"), val |-> 0],
      [chars |-> Chars("7"), val |-> 700000],
      [chars |-> Chars("10"), val |-> 1000000],
      [chars |-> Chars("0.5"), val |-> 50000],
      [chars |-> Chars("16.25"), val |-> 1625000] }
DurUnits == {Chars("m"), Chars("s"), Chars("ms"), Chars("h"), Chars("x"), Chars(" ")}
DurComponents == [num : DurNumbers, unit : DurUnits]
DurText(parts, padded) ==
    LET body == Concat([k \in DOMAIN parts |-> parts[k].num.chars \o parts[k].unit])
    IN  IF padded THEN <<" ">> \o body \o <<" ", "\t">> ELSE body
DurationInputs ==
    {[parts |-> <<>>, raw |-> Undefined]}
    \cup {[parts |-> ps, raw |-> Str(DurText(ps, pad))] :
              ps \in SeqsUpTo(DurComponents, MaxDurParts), pad \in BOOLEAN}

\* Extractor inputs: pieces joined by blanks.  tokens are the numeric tokens
\* a reader finds in the piece once commas and carets separate, each with
\* its value times Scale and whether it is written as an integer.
TextPieces ==
    { [chars |-> Chars("3600"), tokens |-> <<[val |-> 360000000, digits |-> 4, dec |-> FALSE]>>],
      [chars |-> Chars("3,600"), tokens |-> <<[val |-> 300000, digits |-> 1, dec |-> FALSE],
                                             [val |-> 60000000, digits |-> 3, dec |-> FALSE]>>],
      [chars |-> Chars("3600.5"), tokens |-> <<[val |-> 360050000, digits |-> 4, dec |-> TRUE]>>],
      [chars |-> Chars("12"), tokens |-> <<[val |-> 1200000, digits |-> 2, dec |-> FALSE]>>],
      [chars |-> Chars("-250"), tokens |-> <<[val |-> -25000000, digits |-> 3, dec |-> FALSE]>>],
      [chars |-> Chars("60^2"), tokens |-> <<[val |-> 6000000, digits |-> 2, dec |-> FALSE],
                                            [val |-> 200000, digits |-> 1, dec |-> FALSE]>>],
      [chars |-> Chars("1.5"), tokens |-> <<[val |-> 150000, digits |-> 1, dec |-> TRUE]>>],
      [chars |-> Chars("Step"), tokens |-> <<>>],
      [chars |-> Chars("x-y."), tokens |-> <<>>] }
ExtractInputs ==
    {[pieces |-> <<>>, text |-> Null]}
    \cup {[pieces |-> ps,
           text |-> Str(Join([k \in DOMAIN ps |-> ps[k].chars], <<" ">>))] :
              ps \in SeqsUpTo(TextPieces, MaxPieces)}

(***************************************************************************)
(* Specifications of the two pure functions                                *)
(***************************************************************************)
AppIdle ==
    /\ pc = "idle"
    /\ resOk = FALSE
    /\ txt = <<>>
    /\ lines = <<>>
    /\ i = 0
    /\ models = <<>>
    /\ cur = Null
    /\ afterHeaderLineCount = 0
    /\ SORT = [by |-> "total", dir |-> "asc"]
    /\ search = <<>>
    /\ options = <<>>
    /\ grid = [kind |-> "blank"]
    /\ modelCount = <<0, 0>>
    /\ compare = [kind |-> "blank"]
    /\ handlers = {}

InitDuration == arg \in DurationInputs /\ ret = Pending /\ AppIdle
CallParseDuration ==
    /\ pc = "idle"
    /\ ret = Pending
    /\ ret' = parseDurationToSeconds(arg.raw)
    /\ UNCHANGED <<arg, appVars>>
SpecDuration == InitDuration /\ [][CallParseDuration]_vars

InitExtract == arg \in ExtractInputs /\ ret = Pending /\ AppIdle
CallExtractNumber ==
    /\ pc = "idle"
    /\ ret = Pending
    /\ ret' = extractNumberFromText(arg.text)
    /\ UNCHANGED <<arg, appVars>>
SpecExtract == InitExtract /\ [][CallExtractNumber]_vars

(***************************************************************************)
(* Specifications of the page                                              *)
(***************************************************************************)
LF == <<"\n">>
CRLF == <<"\r", "\n">>

\* the lines a report is made of under SpecLoad
ReportLines ==
    { Chars("a:1"),
      Chars("  Qw-2.5:7b \t"),
      <<>>,
      <<" ", Backtick, Backtick, Backtick>>,
      Chars("Step 5: 3600"),
      Chars("so 3,600 miles"),
      Chars("thinking..."),
      Chars("Total Duration:  1m2s"),
      Chars("eval count: n/a"),
      Chars("eval count: 41 token(s)") }
LoadReports ==
    {Join(ls, eol) : ls \in SeqsUpTo(ReportLines, MaxLines), eol \in {LF, CRLF}}

\* the reports under Spec: blocks of a header and metric lines
BlockName(k) == <<(IF k % 2 = 1 THEN "a" ELSE "B"), ":", Digits[k + 1]>>
BlockBodies ==
    { <<>>,
      <<Chars("total duration: 5s"), Chars("eval count: 7"),
        Chars("eval rate: 2.5 tokens/s")>>,
      <<Chars("total duration: 1m"), Chars("eval count: n/a"),
        Chars("eval duration: 3s")>>,
      <<Chars("total duration: 5s"), Chars("eval duration: 9s"),
        Chars("prompt eval rate: 10")>>,
      <<Chars("eval count: 12"), Chars("prompt eval rate: 4"),
        Chars("eval rate: 40")>> }
BlockReport(bodies) ==
    Join(Concat([k \in DOMAIN bodies |-> <<BlockName(k)>> \o bodies[k]]), LF)
ViewReports == {BlockReport(bs) : bs \in SeqsUpTo(BlockBodies, MaxBlocks)}
SearchQueries == {<<>>, <<" ", "A", " ">>}

InitPage(reports) ==
    /\ arg = Null
    /\ ret = Null
    /\ pc = "fetch"
    /\ resOk \in BOOLEAN
    /\ txt \in reports
    /\ lines = <<>>
    /\ i = 0
    /\ models = <<>>
    /\ cur = Null
    /\ afterHeaderLineCount = 0
    /\ SORT = [by |-> "total", dir |-> "asc"]
    /\ search = <<>>
    /\ options = <<>>
    /\ grid = [kind |-> "blank"]
    /\ modelCount = <<0, 0>>
    /\ compare = [kind |-> "blank"]
    /\ handlers = {}

\* the page from its load to the end of init(), no event delivered
InitLoad == InitPage(LoadReports)
NextLoad ==
    \/ FetchFail
    \/ FetchOk
    \/ ParseLine
    \/ LoopExit
    \/ InitRender
SpecLoad == InitLoad /\ [][NextLoad]_vars

\* the page loading a report of one header, some lines of reasoning, and a
\* few lines that answer, measure or open the next block
AnswerTailLines ==
    { Chars("The answer is unknown"),
      Chars("Step 5: 3600"),
      Chars("so 3,600 miles"),
      Chars("eval count: 7"),
      Chars("Eval Count: 41 answer"),
      Chars("a:1") }
Filler(k) == [j \in 1..k |-> Chars("thinking...")]
AnswerReports ==
    {Join(<<Chars("a:1")>> \o Filler(k) \o tail, LF) :
        k \in 0..MaxFiller, tail \in SeqsUpTo(AnswerTailLines, MaxTail)}
InitAnswer == InitPage(AnswerReports)
SpecAnswer == InitAnswer /\ [][NextLoad]_vars

\* the page with the events of its controls
Init == InitPage(ViewReports)
Next ==
    \/ FetchFail
    \/ FetchOk
    \/ ParseLine
    \/ LoopExit
    \/ InitRender
    \/ \E q \in SearchQueries : SearchInput(q)
    \/ \E by \in SortKeys : SortByChange(by)
    \/ SortDirClick
    \/ \E nameA, nameB \in Range(options) \cup {<<>>} : CompareChange(nameA, nameB)
Spec == Init /\ [][Next]_vars

(***************************************************************************)
(* Claims about parseDurationToSeconds (SpecDuration)                      *)
(***************************************************************************)
Called == ret # Pending
HasUnit(parts, u) == \E k \in DOMAIN parts : parts[k].unit = u
\* the number of the first component written with unit u, 0 when there is none
FirstOfUnit(parts, u) ==
    IF HasUnit(parts, u)
    THEN parts[CHOOSE k \in DOMAIN parts :
                   /\ parts[k].unit = u
                   /\ \A j \in DOMAIN parts : parts[j].unit = u => k <= j].num.val
    ELSE 0
OrNull(v) == IF v = 0 THEN Null ELSE Num(v)

\* C1: a duration holding only a milliseconds component <n>ms parses to
\* n/1000 seconds, with no minutes contribution.
C1_MillisecondsOnly ==
    (Called /\ Len(arg.parts) = 1 /\ arg.parts[1].unit = Chars("ms"))
        => ret = OrNull(arg.parts[1].num.val \div 1000)

\* C2: without a milliseconds component the result is minutes*60 + seconds
\* of the components present, and null exactly when the input is absent,
\* empty or sums to zero.
C2_MinutesAndSeconds ==
    (Called /\ ~HasUnit(arg.parts, Chars("ms")))
        => ret = OrNull(FirstOfUnit(arg.parts, Chars("m")) * 60
                        + FirstOfUnit(arg.parts, Chars("s")))
C2_Witness ==
    /\ Called
    /\ ~HasUnit(arg.parts, Chars("ms"))
    /\ HasUnit(arg.parts, Chars("m"))
    /\ HasUnit(arg.parts, Chars("s"))
    /\ ret = Num(61625000)

(***************************************************************************)
(* Claims about extractNumberFromText (SpecExtract)                        *)
(***************************************************************************)
AllTokens(pieces) == Concat([k \in DOMAIN pieces |-> pieces[k].tokens])
\* the value of the first token satisfying Big, else of the last token, else null
Preferred(tokens, Big(_)) ==
    LET big == SelectSeq(tokens, Big)
    IN  IF Len(tokens) = 0 THEN Null
        ELSE IF Len(big) > 0 THEN Num(big[1].val)
        ELSE Num(tokens[Len(tokens)].val)
HasBigIntegerPart(tok) == tok.digits >= 3
IsBigInteger(tok) == tok.digits >= 3 /\ ~tok.dec

\* C3 as stated: the first token with 3 or more integer digits is returned,
\* whether or not it has a decimal part; else the last token; else null.
C3_AnyDecimalWidth ==
    Called => ret = Preferred(AllTokens(arg.pieces), HasBigIntegerPart)

\* C3 as amended: the first token that is an integer of 3 or more digits
\* (sign ignored, no decimal part) is returned; else the last token; null
\* when the text has no numeric token.
C3_IntegerTokensOnly ==
    Called => ret = Preferred(AllTokens(arg.pieces), IsBigInteger)
C3_Witness ==
    /\ Called
    /\ Len(arg.pieces) = 2
    /\ arg.pieces[1].chars = Chars("3600.5")
    /\ arg.pieces[2].chars = Chars("12")
    /\ ret = Num(1200000)

\* C4: the digits on both sides of a stripped comma form one token, so
\* 3,600 is extracted as 3600.
C4_ThousandsSeparator ==
    (Called /\ arg.text = Str(Chars("3,600"))) => ret = Num(EXPECTED_ANSWER * Scale)

(***************************************************************************)
(* Claims about loadData (SpecLoad)                                        *)
(***************************************************************************)
Loaded == pc \in {"loaded", "ready"}

\* The report's lines read by hand: which are headers (and the name each
\* gives), which are skipped, which are body lines.
HeaderLines == {Chars("a:1"), Chars("  Qw-2.5:7b \t")}
HeaderName(l) == IF l = Chars("a:1") THEN Chars("a:1") ELSE Chars("Qw-2.5:7b")
SkippedLines == {<<>>, <<" ", Backtick, Backtick, Backtick>>}
IsBodyLine(l) == l \notin HeaderLines \cup SkippedLines

HeaderPositions(ls) == {k \in DOMAIN ls : ls[k] \in HeaderLines}
\* the position of the n-th header line
NthHeader(ls, n) ==
    CHOOSE p \in HeaderPositions(ls) :
        Cardinality({q \in HeaderPositions(ls) : q <= p}) = n
\* the body lines between the header at p and the next header (or the end)
BodyOf(ls, p) ==
    LET next == {q \in HeaderPositions(ls) : q > p}
        end == IF next = {} THEN Len(ls)
               ELSE (CHOOSE q \in next : \A r \in next : q <= r) - 1
    IN  SelectSeq(SubSeq(ls, p + 1, end), IsBodyLine)
\* the record a header and its body lines give, the lines taken in order
RECURSIVE Build(_, _, _)
Build(rec, body, n) ==
    IF body = <<>> THEN rec
    ELSE Build(classifyBodyLine(rec, Head(body), n + 1), Tail(body), n + 1)
SegmentRecord(ls, p) ==
    Build([newRecord(ls[p]) EXCEPT !.name = HeaderName(ls[p])], BodyOf(ls, p), 0)

\* C5: one record per header line, in order of appearance; each body line
\* goes only to the most recent header above it; body lines before the
\* first header are discarded; blank and fence lines neither open nor close
\* a segment nor count as body lines; the last open segment is emitted.
C5_Segmentation ==
    /\ pc = "parse" =>
          LET seen == SubSeq(lines, 1, i - 1)
              hs == HeaderPositions(seen)
              last == CHOOSE p \in hs : \A q \in hs : q <= p
          IN  /\ Len(models) + (IF cur = Null THEN 0 ELSE 1) = Cardinality(hs)
              /\ (cur = Null) <=> (hs = {})
              /\ \A k \in DOMAIN models : models[k] = SegmentRecord(seen, NthHeader(seen, k))
              /\ hs = {} => afterHeaderLineCount = 0
              /\ hs # {} => /\ afterHeaderLineCount = Len(BodyOf(seen, last))
                            /\ cur = SegmentRecord(seen, last)
    /\ Loaded =>
          /\ Len(models) = Cardinality(HeaderPositions(lines))
          /\ \A k \in DOMAIN models :
                 models[k] = normalize(SegmentRecord(lines, NthHeader(lines, k)))
C5_Witness ==
    /\ Loaded
    /\ lines = <<Chars("thinking..."), Chars("a:1"), Chars("Step 5: 3600")>>
    /\ Len(models) = 1
    /\ models[1].name = Chars("a:1")
    /\ models[1].answerLine = Str(Chars("Step 5: 3600"))

\* C6: in the collection one loadData call returns, every name is non-empty
\* and no two records have the same name.
C6_NamesDistinct ==
    Loaded =>
        /\ \A k \in DOMAIN models : models[k].name # <<>>
        /\ \A j, k \in DOMAIN models : j # k => models[j].name # models[k].name

\* C7: correct is a boolean, true if and only if numericAnswer equals 3600;
\* a record with no captured answer has correct = false.
C7_CorrectIffExpected ==
    Loaded =>
        \A k \in DOMAIN models :
            /\ models[k].correct \in {Bool(TRUE), Bool(FALSE)}
            /\ models[k].correct.v <=> models[k].numericAnswer = Num(EXPECTED_ANSWER * Scale)
            /\ models[k].numericAnswer = Null => models[k].correct = Bool(FALSE)
C7_Witness ==
    /\ Loaded
    /\ \E j, k \in DOMAIN models :
           /\ models[j].numericAnswer = Num(EXPECTED_ANSWER * Scale)
           /\ models[j].correct = Bool(TRUE)
           /\ models[k].numericAnswer = Null
           /\ models[k].correct = Bool(FALSE)

\* the typed metric fields of a record with the labels they are read from
TypedFields(m) ==
    { <<m.totalSeconds, Chars("total duration")>>,
      <<m.loadSeconds, Chars("load duration")>>,
      <<m.promptCount, Chars("prompt eval count")>>,
      <<m.evalCount, Chars("eval count")>>,
      <<m.promptDurationSeconds, Chars("prompt eval duration")>>,
      <<m.evalDurationSeconds, Chars("eval duration")>>,
      <<m.promptRate, Chars("prompt eval rate")>>,
      <<m.evalRate, Chars("eval rate")>> }
HasDigit(s) == \E k \in DOMAIN s : IsDigit(s[k])

\* C8: a typed metric field is null whenever its label is missing or its
\* stored string holds no digits; it is never NaN.
C8_AbsentNeverNaN ==
    Loaded =>
        \A k \in DOMAIN models : \A f \in TypedFields(models[k]) :
            LET stored == models[k].metrics[f[2]]
            IN  /\ f[1] = Null \/ IsNum(f[1])
                /\ (stored = Undefined \/ ~HasDigit(stored.v)) => f[1] = Null

(***************************************************************************)
(* Claims about the page (Spec)                                            *)
(***************************************************************************)
\* the sort value of the record a card shows
CardVal(k) == getVal(models[k], SORT.by)
\* position of record k among the cards of g
CardAt(g, k) == CHOOSE p \in DOMAIN g.items : g.items[p] = k
\* in the grid, no card with a missing (absent or NaN) sort value stands
\* before a card with a number
MissingLast ==
    grid.kind = "cards" =>
        \A p, q \in DOMAIN grid.items :
            (p < q /\ isMissing(CardVal(grid.items[p]))) => isMissing(CardVal(grid.items[q]))
\* across a change of direction: two cards change their relative order only
\* if both hold numbers, and they do whenever the two numbers differ
ToggleReversesNumbersOnly ==
    (grid.kind = "cards" /\ grid'.kind = "cards") =>
        \A j, k \in Range(grid.items) :
            LET swapped == (CardAt(grid, j) < CardAt(grid, k))
                               # (CardAt(grid', j) < CardAt(grid', k))
                numbers == ~isMissing(CardVal(j)) /\ ~isMissing(CardVal(k))
            IN  j # k =>
                  /\ swapped => numbers
                  /\ (numbers /\ CardVal(j) # CardVal(k)) => swapped

\* C9: for every sort key and both directions, every record whose sort
\* value is absent or NaN is placed after every record whose sort value is a
\* number; toggling the direction reverses only the relative order of the
\* records with numeric values.
C9_MissingSortLast ==
    [][/\ MissingLast'
       /\ SORT'.dir # SORT.dir => ToggleReversesNumbersOnly]_vars
C9_Witness ==
    /\ pc = "ready"
    /\ SORT.dir = "desc"
    /\ grid.kind = "cards"
    /\ grid.items = <<2, 1>>
    /\ isMissing(CardVal(1))
    /\ ~isMissing(CardVal(2))

\* C10: a fetch that returns a non-success response ends the load with one
\* error before any line is parsed: no record is produced, nothing is
\* rendered from records, no handler is registered, the only effect is the
\* error message in the grid, and nothing runs afterwards.
C10_FetchFailureIsTerminal ==
    /\ ~resOk => pc \in {"fetch", "failed"}
    /\ pc = "failed" =>
          /\ ~resOk
          /\ grid = [kind |-> "error", message |-> FailedToLoad]
          /\ lines = <<>> /\ i = 0 /\ models = <<>> /\ cur = Null
          /\ options = <<>> /\ modelCount = <<0, 0>> /\ compare = [kind |-> "blank"]
          /\ handlers = {}
          /\ ~ENABLED Next
C10_Witness == pc = "failed" /\ grid.kind = "error" /\ txt # <<>>

(***************************************************************************)
(* Claims about the answer and metric rules (SpecAnswer)                   *)
(***************************************************************************)
\* The lines of these reports read by hand: which hold an early-answer
\* marker, which hold a standalone number of 3 or more digits and no metric
\* word, which are labeled metrics (with their key and value), and the
\* number each gives when captured as the answer.
MarkerLines ==
    {Chars("The answer is unknown"), Chars("Step 5: 3600"), Chars("Eval Count: 41 answer")}
FallbackLines == {Chars("Step 5: 3600"), Chars("so 3,600 miles")}
MetricLines == {Chars("eval count: 7"), Chars("Eval Count: 41 answer")}
MetricValue(l) ==
    IF l = Chars("eval count: 7") THEN Chars("7") ELSE Chars("41 answer")
AnswerNumber(l) ==
    CASE l = Chars("The answer is unknown") -> Null
      [] l = Chars("Step 5: 3600") -> Num(360000000)
      [] l = Chars("so 3,600 miles") -> Num(60000000)
      [] l = Chars("Eval Count: 41 answer") -> Num(4100000)

\* a step of the loop over a body line of an open segment
BodyStep ==
    /\ pc = "parse" /\ pc' = "parse"
    /\ cur # Null
    /\ IsBodyLine(lines[i])
\* the body lines of the open segment before the current line, by hand
BodyLinesSoFar ==
    LET seen == SubSeq(lines, 1, i - 1)
        hs == HeaderPositions(seen)
    IN  Len(BodyOf(seen, CHOOSE p \in hs : \A q \in hs : q <= p))
Captured == cur'.answerLine # cur.answerLine \/ cur'.numericAnswer # cur.numericAnswer

\* C11: within a segment the early-answer markers capture a line only
\* while the count of body lines since the header is at most 6 and no
\* answer line is captured; once answerLine is captured, by the early or the
\* fallback rule, no later line of the segment changes answerLine or
\* numericAnswer, even when the captured line gave no number.
C11_EarlyWindowAndFirstAnswerKept ==
    [][BodyStep =>
         LET l == lines[i]
             n == BodyLinesSoFar + 1
             early == cur.answerLine = Null /\ n <= 6 /\ l \in MarkerLines
             fallback == cur.answerLine = Null /\ l \in FallbackLines
         IN  /\ cur.answerLine # Null => ~Captured
             /\ Captured =>
                   /\ early \/ fallback
                   /\ cur'.answerLine = Str(l)
                   /\ cur'.numericAnswer = AnswerNumber(l)
             /\ early => Captured
             /\ (l \in MarkerLines /\ l \notin FallbackLines /\ n > 6) => ~Captured]_vars
C11_Witness ==
    /\ pc = "parse"
    /\ i > 3
    /\ lines[i - 2] = Chars("The answer is unknown")
    /\ lines[i - 1] = Chars("Step 5: 3600")
    /\ cur # Null
    /\ cur.answerLine = Str(Chars("The answer is unknown"))
    /\ cur.numericAnswer = Null
    /\ afterHeaderLineCount > 6

\* the rule a body line of an open segment falls to, by hand: the early
\* rule first, then the metrics rule, then the fallback rule
EarlyApplies(l, n, answered) == ~answered /\ n <= 6 /\ l \in MarkerLines
MetricApplies(l, n, answered) == ~EarlyApplies(l, n, answered) /\ l \in MetricLines
\* the metrics a segment ends with, by hand: of its labeled lines other
\* than the one taken as its answer, the last gives the value
FirstAnswerAt(body) ==
    LET takes == {j \in DOMAIN body :
                     \/ body[j] \in MarkerLines /\ j <= 6
                     \/ body[j] \in FallbackLines}
    IN  IF takes = {} THEN 0 ELSE CHOOSE j \in takes : \A q \in takes : j <= q
LastStored(body) ==
    LET stored == {j \in DOMAIN body :
                      body[j] \in MetricLines /\ j # FirstAnswerAt(body)}
    IN  IF stored = {} THEN Undefined
        ELSE Str(MetricValue(body[CHOOSE j \in stored : \A q \in stored : q <= j]))
SegmentMetrics(ls, k) ==
    [key \in MetricKeys |->
        IF key = Chars("eval count") THEN LastStored(BodyOf(ls, NthHeader(ls, k)))
        ELSE Undefined]

\* C12: a body line is consumed by at most one rule, tried in the order
\* early answer, labeled metric, fallback answer: a line captured as the
\* early answer writes no metric, a line stored as a metric is not captured
\* as the answer, a label occurring several times keeps the value of its
\* last occurrence, and the metrics of a segment are not affected by the
\* lines of another segment.
C12_OneRulePerLine ==
    /\ [][(pc = "parse" /\ pc' = "parse" /\ cur # Null) =>
            LET l == lines[i]
                n == BodyLinesSoFar + 1
                answered == cur.answerLine # Null
                stores == [cur.metrics EXCEPT ![Chars("eval count")] = Str(MetricValue(l))]
            IN  IF l \in HeaderLines
                THEN /\ models' = Append(models, cur)
                     /\ cur'.metrics = [key \in MetricKeys |-> Undefined]
                ELSE /\ models' = models
                     /\ Captured => cur'.metrics = cur.metrics
                     /\ EarlyApplies(l, n, answered) =>
                           Captured /\ cur'.metrics = cur.metrics
                     /\ MetricApplies(l, n, answered) =>
                           ~Captured /\ cur'.metrics = stores
                     /\ cur'.metrics # cur.metrics => MetricApplies(l, n, answered)]_vars
    /\ [](Loaded => \A k \in DOMAIN models : models[k].metrics = SegmentMetrics(lines, k))
C12_Witness ==
    /\ pc = "loaded"
    /\ lines = << Chars("a:1"), Chars("Eval Count: 41 answer"),
                  Chars("Eval Count: 41 answer"), Chars("eval count: 7") >>
    /\ Len(models) = 1
    /\ models[1].answerLine = Str(Chars("Eval Count: 41 answer"))
    /\ models[1].numericAnswer = Num(4100000)
    /\ models[1].metrics[Chars("eval count")] = Str(Chars("7"))

====
